---- MODULE Spec2Model ----
(***************************************************************************)
(* Model of the download orchestration of music-downloader:                *)
(*   core/downloader.py     MusicDownloader (download_track, its yt-dlp    *)
(*                          hooks, _get_output_path, cancel_download)      *)
(*   core/content_filter.py ContentFilter.clean_filename                   *)
(*   gui/main_window.py     DownloadWorker, MainWindow download handlers   *)
(*   gui/task_manager.py, gui/task_card.py   task cards                    *)
(*                                                                         *)
(* Python strings are sequences of one-character strings, so that the      *)
(* text functions (strip, split, pathlib suffix handling, glob matching)   *)
(* are computed as the code computes them.                                 *)
(*                                                                         *)
(* Left out: unlink failing with PermissionError, character ranges in glob *)
(* patterns, the copy to USB, the size and duration that _update_metadata  *)
(* returns, and the contents of the ID3 tags. The score thresholds of      *)
(* _score_metadata_match are compared as exact fractions.                  *)
(***************************************************************************)
EXTENDS Integers, Sequences, FiniteSets, TLC

(***************************************************************************)
(* Python str helpers                                                      *)
(***************************************************************************)

\* str.lower() on the characters the model uses
LowerCh(c) ==
    CASE c = "A" -> "a"
      [] c = "B" -> "b"
      [] c = "C" -> "c"
      [] c = "D" -> "d"
      [] c = "E" -> "e"
      [] c = "F" -> "f"
      [] c = "G" -> "g"
      [] c = "H" -> "h"
      [] c = "I" -> "i"
      [] c = "J" -> "j"
      [] c = "K" -> "k"
      [] c = "L" -> "l"
      [] c = "M" -> "m"
      [] c = "N" -> "n"
      [] c = "O" -> "o"
      [] c = "P" -> "p"
      [] c = "Q" -> "q"
      [] c = "R" -> "r"
      [] c = "S" -> "s"
      [] c = "T" -> "t"
      [] c = "U" -> "u"
      [] c = "V" -> "v"
      [] c = "W" -> "w"
      [] c = "X" -> "x"
      [] c = "Y" -> "y"
      [] c = "Z" -> "z"
      [] OTHER -> c

Lower(s) == [i \in 1..Len(s) |-> LowerCh(s[i])]

IsSpace(c) == c = " "

RECURSIVE LStrip(_)
LStrip(s) == IF s # <<>> /\ IsSpace(Head(s)) THEN LStrip(Tail(s)) ELSE s

RECURSIVE RStrip(_)
RStrip(s) ==
    IF s # <<>> /\ IsSpace(s[Len(s)]) THEN RStrip(SubSeq(s, 1, Len(s) - 1)) ELSE s

\* str.strip()
Strip(s) == RStrip(LStrip(s))

\* s[:n], which Python clamps to the length of s
Take(s, n) == SubSeq(s, 1, IF n < Len(s) THEN n ELSE Len(s))

\* s[from:] with a 1-based start
DropTo(s, from) == SubSeq(s, from, Len(s))

\* s.startswith(p) / s.endswith(p)
StartsWith(s, p) == Len(p) <= Len(s) /\ SubSeq(s, 1, Len(p)) = p
EndsWith(s, p) == Len(p) <= Len(s) /\ SubSeq(s, Len(s) - Len(p) + 1, Len(s)) = p

\* s.find(sub) as a 1-based index, 0 when absent (Python returns -1 there)
Find(s, sub) ==
    LET hits == {i \in 1..(Len(s) - Len(sub) + 1) : SubSeq(s, i, i + Len(sub) - 1) = sub}
    IN  IF hits = {} THEN 0 ELSE CHOOSE i \in hits : \A j \in hits : i <= j

\* s.rfind(sub), same convention
RFind(s, sub) ==
    LET hits == {i \in 1..(Len(s) - Len(sub) + 1) : SubSeq(s, i, i + Len(sub) - 1) = sub}
    IN  IF hits = {} THEN 0 ELSE CHOOSE i \in hits : \A j \in hits : i >= j

\* sub in s
Contains(s, sub) == Find(s, sub) # 0

\* set(s.split()): the whitespace-separated words of s
Words(s) ==
    {SubSeq(s, i, j) : <<i, j>> \in
        {ij \in (1..Len(s)) \X (1..Len(s)) :
            /\ ij[1] <= ij[2]
            /\ \A k \in ij[1]..ij[2] : ~IsSpace(s[k])
            /\ (ij[1] = 1 \/ IsSpace(s[ij[1] - 1]))
            /\ (ij[2] = Len(s) \/ IsSpace(s[ij[2] + 1]))}}

\* re.sub('[...]', '', s): s without the characters of bad
RECURSIVE RemoveChars(_, _)
RemoveChars(s, bad) ==
    IF s = <<>> THEN <<>>
    ELSE IF Head(s) \in bad THEN RemoveChars(Tail(s), bad)
    ELSE <<Head(s)>> \o RemoveChars(Tail(s), bad)

(***************************************************************************)
(* pathlib: names, suffixes, glob                                          *)
(***************************************************************************)

\* PurePath.suffix of a final component: from the last dot, unless that dot
\* is the first or the last character
Suffix(name) ==
    LET i == RFind(name, <<".">>)
    IN  IF 1 < i /\ i < Len(name) THEN DropTo(name, i) ELSE <<>>

\* PurePath.stem
Stem(name) ==
    LET i == RFind(name, <<".">>)
    IN  IF 1 < i /\ i < Len(name) THEN SubSeq(name, 1, i - 1) ELSE name

\* PurePath.with_suffix(suf) on the final component
WithSuffix(name, suf) ==
    IF Suffix(name) = <<>> THEN name \o suf
    ELSE SubSeq(name, 1, Len(name) - Len(Suffix(name))) \o suf

\* path / component: an empty or "." component names the directory itself
JoinDir(dir, comp) ==
    IF comp = <<>> \/ comp = <<".">> THEN dir ELSE Append(dir, comp)

\* a directory and the directories above it (mkdir(parents=True))
Parents(dir) == {SubSeq(dir, 1, n) : n \in 0..Len(dir)}

\* fnmatch: end of the character class opening at pat[1] = "[", 0 when the
\* bracket is never closed (the bracket is then an ordinary character)
ClassEnd(pat) ==
    LET first == IF Len(pat) >= 2 /\ pat[2] = "!" THEN 3 ELSE 2
        from  == IF Len(pat) >= first /\ pat[first] = "]" THEN first + 1 ELSE first
        ends  == {j \in from..Len(pat) : pat[j] = "]"}
    IN  IF ends = {} THEN 0 ELSE CHOOSE j \in ends : \A k \in ends : j <= k

\* fnmatch.fnmatchcase(name, pat) for patterns made of ordinary characters,
\* "*", "?" and character classes without ranges
RECURSIVE FnMatch(_, _)
FnMatch(name, pat) ==
    IF pat = <<>> THEN name = <<>>
    ELSE IF Head(pat) = "*" THEN
        \/ FnMatch(name, Tail(pat))
        \/ name # <<>> /\ FnMatch(Tail(name), pat)
    ELSE IF Head(pat) = "?" THEN
        name # <<>> /\ FnMatch(Tail(name), Tail(pat))
    ELSE IF Head(pat) = "[" /\ ClassEnd(pat) # 0 THEN
        LET e     == ClassEnd(pat)
            neg   == pat[2] = "!"
            chars == {pat[k] : k \in (IF neg THEN 3 ELSE 2)..(e - 1)}
        IN  /\ name # <<>>
            /\ (Head(name) \in chars) # neg
            /\ FnMatch(Tail(name), DropTo(pat, e + 1))
    ELSE name # <<>> /\ Head(name) = Head(pat) /\ FnMatch(Tail(name), Tail(pat))

(***************************************************************************)
(* MusicDownloader._clean_title                                            *)
(***************************************************************************)

\* the decorative suffixes, in the order the code tries them
TitleSuffixes == <<
    <<"(", "O", "f", "f", "i", "c", "i", "a", "l", " ", "M", "u", "s", "i", "c", " ", "V", "i", "d", "e", "o", ")">>,
    <<"(", "O", "f", "f", "i", "c", "i", "a", "l", " ", "V", "i", "d", "e", "o", ")">>,
    <<"(", "O", "f", "f", "i", "c", "i", "a", "l", " ", "A", "u", "d", "i", "o", ")">>,
    <<"(", "L", "y", "r", "i", "c", " ", "V", "i", "d", "e", "o", ")">>,
    <<"(", "M", "u", "s", "i", "c", " ", "V", "i", "d", "e", "o", ")">>,
    <<"[", "O", "f", "f", "i", "c", "i", "a", "l", " ", "M", "u", "s", "i", "c", " ", "V", "i", "d", "e", "o", "]">>,
    <<"[", "O", "f", "f", "i", "c", "i", "a", "l", " ", "V", "i", "d", "e", "o", "]">>,
    <<"[", "O", "f", "f", "i", "c", "i", "a", "l", " ", "A", "u", "d", "i", "o", "]">>,
    <<"[", "L", "y", "r", "i", "c", " ", "V", "i", "d", "e", "o", "]">>,
    <<"[", "M", "u", "s", "i", "c", " ", "V", "i", "d", "e", "o", "]">>,
    <<"(", "H", "D", ")">>,
    <<"(", "H", "Q", ")">>,
    <<"(", "4", "K", ")">>,
    <<"(", "1", "0", "8", "0", "p", ")">>,
    <<"(", "7", "2", "0", "p", ")">>,
    <<"(", "O", "f", "f", "i", "c", "i", "a", "l", ")">>,
    <<"(", "A", "u", "d", "i", "o", ")">>,
    <<"(", "L", "y", "r", "i", "c", "s", ")">>,
    <<"O", "f", "f", "i", "c", "i", "a", "l", " ", "V", "i", "d", "e", "o">>,
    <<"O", "f", "f", "i", "c", "i", "a", "l", " ", "A", "u", "d", "i", "o">>,
    <<"L", "y", "r", "i", "c", " ", "V", "i", "d", "e", "o">>,
    <<"M", "u", "s", "i", "c", " ", "V", "i", "d", "e", "o">>,
    <<"O", "f", "f", "i", "c", "i", "a", "l", " ", "M", "u", "s", "i", "c", " ", "V", "i", "d", "e", "o">> >>

\* the featuring indicators, in the order the code tries them
FeatIndicators == <<
    <<"f", "t", ".">>,
    <<"f", "e", "a", "t", ".">>,
    <<"f", "e", "a", "t", "u", "r", "i", "n", "g">>,
    <<"f", "t">>,
    <<"f", "e", "a", "t">> >>

\* one turn of the suffix loop: cut the suffix at the end, then at the start
StripOneSuffix(title, suffix) ==
    LET t1 == IF EndsWith(Lower(title), Lower(suffix))
              THEN Strip(SubSeq(title, 1, Len(title) - Len(suffix)))
              ELSE title
    IN  IF StartsWith(Lower(t1), Lower(suffix))
        THEN Strip(DropTo(t1, Len(suffix) + 1))
        ELSE t1

\* the suffix loop from the k-th suffix on (each turn's title is bound as a
\* set element, so that it is a value before the next turn starts)
RECURSIVE StripSuffixes(_, _)
StripSuffixes(title, k) ==
    IF k > Len(TitleSuffixes) THEN title
    ELSE CHOOSE r \in {StripSuffixes(t, k + 1) :
                          t \in {StripOneSuffix(title, TitleSuffixes[k])}} : TRUE

\* the featuring loop: positions are found in lower_title, computed once
\* before the loop, and applied to the current title
RECURSIVE CutFeaturing(_, _, _)
CutFeaturing(title, lower_title, k) ==
    IF k > Len(FeatIndicators) THEN title
    ELSE LET feat_index == Find(lower_title, FeatIndicators[k])
         IN  CutFeaturing(
                 IF feat_index > 1 THEN Strip(Take(title, feat_index - 1)) ELSE title,
                 lower_title, k + 1)

\* while title ends with close and contains open: cut from the last open
RECURSIVE StripTrailingGroup(_, _, _)
StripTrailingGroup(title, open, close) ==
    IF EndsWith(title, <<close>>) /\ Contains(title, <<open>>)
    THEN StripTrailingGroup(
             Strip(SubSeq(title, 1, RFind(title, <<open>>) - 1)), open, close)
    ELSE title

CleanTitle(raw) ==
    LET t0 == Strip(raw)
        sep == Find(t0, <<" ", "-", " ">>)
        t1 == IF sep # 0 THEN Strip(DropTo(t0, sep + 3)) ELSE t0
        t2 == StripSuffixes(t1, 1)
        t3 == CutFeaturing(t2, Lower(t2), 1)
        t4 == StripTrailingGroup(t3, "(", ")")
        t5 == StripTrailingGroup(t4, "[", "]")
    IN  Strip(t5)

(***************************************************************************)
(* ContentFilter                                                           *)
(***************************************************************************)

\* ContentFilter.enabled, set in __init__ and never changed by the program
FilterEnabled == TRUE

\* the characters clean_filename removes
ForbiddenChars == {"<", ">", ":", "\"", "/", "\\", "|", "?", "*"}

\* the word list of the censor, reduced to one word
CensorWords == {<<"d", "a", "m", "n">>}

\* profanity.censor: every listed word, matched as a whole word whatever
\* its case, becomes four asterisks
RECURSIVE Censor(_)
Censor(s) ==
    IF s = <<>> THEN <<>>
    ELSE IF IsSpace(Head(s)) THEN <<Head(s)>> \o Censor(Tail(s))
    ELSE LET ends == {j \in 1..Len(s) : IsSpace(s[j])}
             n    == IF ends = {} THEN Len(s)
                     ELSE (CHOOSE j \in ends : \A k \in ends : j <= k) - 1
             word == SubSeq(s, 1, n)
         IN  (IF Lower(word) \in CensorWords THEN <<"*", "*", "*", "*">> ELSE word)
             \o Censor(DropTo(s, n + 1))

\* ContentFilter.clean_filename
CleanFilename(filename) ==
    LET clean == RemoveChars(filename, ForbiddenChars)
    IN  Strip(IF FilterEnabled THEN Censor(clean) ELSE clean)

(***************************************************************************)
(* Lookup records and MusicDownloader._score_metadata_match                *)
(***************************************************************************)

\* dict.get(key, default): a dict is a function whose domain is its keys
Get(d, key, default) == IF key \in DOMAIN d THEN d[key] ELSE default

\* the dict without keys
EmptyDict == <<>>

Max(a, b) == IF a >= b THEN a ELSE b

\* one half of the score, as the fraction num/den of 1: an exact match is
\* 1/2, otherwise half the share of common words
MatchPart(want, got) ==
    LET w == Words(want)
        g == Words(got)
        m == Max(Cardinality(w), Cardinality(g))
    IN  IF got = want THEN [num |-> 1, den |-> 2]
        ELSE IF w \cap g # {} THEN [num |-> Cardinality(w \cap g), den |-> 2 * m]
        ELSE [num |-> 0, den |-> 1]

\* _score_metadata_match, as an exact fraction [num, den] (0.05 is 1/20)
ScoreMetadataMatch(recording, artist, title) ==
    LET tp == MatchPart(Lower(title), Lower(Get(recording, "title", <<>>)))
        ap == MatchPart(Lower(artist), Lower(Get(recording, "artist-credit-phrase", <<>>)))
        b1 == IF Get(recording, "release-list", <<>>) # <<>> THEN 1 ELSE 0
        b2 == IF Get(recording, "isrc-list", <<>>) # <<>> THEN 1 ELSE 0
        den == 20 * tp.den * ap.den
        num == 20 * tp.num * ap.den + 20 * ap.num * tp.den + (b1 + b2) * tp.den * ap.den
    IN  [num |-> IF num > den THEN den ELSE num, den |-> den]

\* score >= n/10
ScoreAtLeast(score, tenths) == 10 * score.num >= tenths * score.den

(***************************************************************************)
(* Inputs: what the extraction and lookup services may answer              *)
(***************************************************************************)

\* extract_info(download=False): the video's title and channel
Infos ==
    { ("title" :> <<"a", "b">>) @@ ("channel" :> <<"c">>),
      ("title" :> <<"[", "a", "]", "b">>) @@ ("channel" :> <<"c">>),
      ("title" :> <<"a", ".", "b">>) @@ ("channel" :> <<"c">>) }

\* recordings of the lookup service
RecMatch ==
    ("title" :> <<"a", "b">>) @@ ("artist-credit-phrase" :> <<"c">>)
        @@ ("release-list" :> << ("title" :> <<"l">>) >>)
RecOther == ("title" :> <<"a", "b">>) @@ ("artist-credit-phrase" :> <<"x">>)

\* a recording with the title "ab" whose artist shares one word of two with
\* "c": its score is 0.75
RecNear == ("title" :> <<"a", "b">>) @@ ("artist-credit-phrase" :> <<"c", " ", "d">>)

\* search_recordings: it raises, or returns a dict with or without a
\* recording list
LookupError == [raised |-> TRUE, value |-> EmptyDict]
Found(recordings) == [raised |-> FALSE, value |-> "recording-list" :> recordings]
PathLookups ==
    { LookupError,
      [raised |-> FALSE, value |-> EmptyDict],
      Found(<<RecMatch>>),
      Found(<<RecNear>>),
      Found(<<RecOther, RecMatch>>) }

(***************************************************************************)
(* MusicDownloader._get_output_path                                        *)
(***************************************************************************)

Mp3 == <<".", "m", "p", "3">>

\* a path is a directory below music_dir (the sequence of its components)
\* and a file name; NoPath stands for None
NoPath == [dir |-> <<>>, name |-> <<>>]

\* the path the accepted lookup record gives, NoPath when the lookup raised
\* or no record was accepted
MatchedPath(channel, title, lookup) ==
    IF lookup.raised THEN NoPath
    ELSE LET recordings == Get(lookup.value, "recording-list", <<>>)
         IN  IF recordings = <<>> THEN NoPath
             ELSE IF ~ScoreAtLeast(ScoreMetadataMatch(recordings[1], channel, title), 7)
             THEN NoPath
             ELSE LET best_match == recordings[1]
                      artist == CleanFilename(Get(best_match, "artist-credit-phrase", channel))
                      btitle == CleanFilename(Get(best_match, "title", title))
                      album  == Get(Get(best_match, "release-list", <<EmptyDict>>)[1],
                                    "title", <<>>)
                      artist_dir == IF album # <<>>
                                    THEN JoinDir(JoinDir(<<>>, artist), CleanFilename(album))
                                    ELSE JoinDir(<<>>, artist)
                  IN  [dir |-> artist_dir, name |-> btitle \o Mp3]

\* _get_output_path: a path below music_dir (the empty directory sequence)
GetOutputPath(video, lookup) ==
    LET title   == CleanTitle(Get(video, "title", <<>>))
        channel == Get(video, "channel", <<>>)
        matched == MatchedPath(channel, title, lookup)
    IN  IF matched # NoPath THEN matched
        ELSE [dir  |-> JoinDir(<<>>, CleanFilename(channel)),
              name |-> CleanFilename(title) \o Mp3]

(***************************************************************************)
(* State                                                                   *)
(***************************************************************************)

\* the downloads that can be in flight together on the one MusicDownloader
\* of MainWindow; each is started once
Tasks == {1, 2}

\* no task: the value None of _current_callback and of active_downloads
NoTask == 0

VARIABLES
    current_callback, \* MusicDownloader._current_callback: the task whose sink it holds
    cancelled,        \* MusicDownloader._cancelled
    files,            \* the files below music_dir
    dirs,             \* the directories below music_dir (music_dir is <<>>)
    pc,               \* where each download is
    has_sink,         \* download_track's progress_callback is not None
    worker,           \* the download runs in a DownloadWorker of the main window
    info,             \* download_track's local info
    output_path,      \* download_track's local output_path
    metadata,         \* download_track's local metadata
    exc,              \* the exception download_track is handling or re-raising
    result,           \* what download_track returned or raised to its caller
    sink,             \* the calls each task's progress_callback has received
    is_cancelled,     \* DownloadWorker._is_cancelled
    card,             \* TaskCard.status of the task's card
    requested,        \* the caller has asked to cancel this download
    mid_download,     \* ... and asked while ydl.download was running
    invoked,          \* ydl.download was called for this download
    tag_failed,       \* writing the tags of this download failed
    effects,          \* the directories and files each download made or removed
    call              \* a call of one of the pure functions: its arguments and result

vars == <<current_callback, cancelled, files, dirs, pc, has_sink, worker, info,
          output_path, metadata, exc, result, sink, is_cancelled, card, requested,
          mid_download,
          invoked, tag_failed, effects, call>>

downloader == <<current_callback, cancelled>>
filesystem == <<files, dirs>>
locals == <<info, output_path, metadata>>
ghosts == <<requested, mid_download, invoked, tag_failed>>

NoExc == [type |-> "", msg |-> ""]
NoResult == [kind |-> "none", path |-> NoPath, exc |-> NoExc]
NoEffects == [made_dirs |-> {}, made_files |-> {}, removed |-> {}]

\* no function is being called
NoCall == [fn |-> "", done |-> TRUE]

\* MusicDownloader.__init__ (music_dir exists, nothing in flight) and
\* MainWindow.__init__ (no active download)
InitTasks ==
    /\ current_callback = NoTask
    /\ cancelled = FALSE
    /\ pc = [t \in Tasks |-> "idle"]
    /\ has_sink = [t \in Tasks |-> FALSE]
    /\ worker = [t \in Tasks |-> FALSE]
    /\ info = [t \in Tasks |-> EmptyDict]
    /\ output_path = [t \in Tasks |-> NoPath]
    /\ metadata = [t \in Tasks |-> EmptyDict]
    /\ exc = [t \in Tasks |-> NoExc]
    /\ result = [t \in Tasks |-> NoResult]
    /\ sink = [t \in Tasks |-> <<>>]
    /\ is_cancelled = [t \in Tasks |-> FALSE]
    /\ card = [t \in Tasks |-> ""]
    /\ requested = [t \in Tasks |-> FALSE]
    /\ mid_download = [t \in Tasks |-> FALSE]
    /\ invoked = [t \in Tasks |-> FALSE]
    /\ tag_failed = [t \in Tasks |-> FALSE]
    /\ effects = [t \in Tasks |-> NoEffects]

\* no download yet, in a music directory that is empty
InitDownloads ==
    /\ files = {}
    /\ dirs = {<<>>}
    /\ InitTasks

Init == InitDownloads /\ call = NoCall

\* the file an earlier download of the video "ab" of channel "c" left
EarlierDownload == [dir |-> <<<<"c">>>>, name |-> <<"a", "b">> \o Mp3]

\* no download in flight, in a music directory that holds an earlier download
InitAgain ==
    /\ files = {EarlierDownload}
    /\ dirs = Parents(EarlierDownload.dir)
    /\ InitTasks
    /\ call = NoCall

(***************************************************************************)
(* Progress callbacks                                                      *)
(***************************************************************************)

\* The progress_callback of DownloadWorker.run: the sink of task target
\* receives (status, progress) from the download src, and unless the worker
\* was cancelled the progress signal reaches MainWindow._on_download_progress,
\* TaskManager.update_task and TaskCard.set_status. A target of NoTask is a
\* callback that is None. ui is the pair [sink, card]; progress is in
\* thousandths.
Deliver(ui, target, status, progress, src) ==
    IF target = NoTask THEN ui
    ELSE [sink |-> [ui.sink EXCEPT ![target] =
                       Append(@, [status |-> status, progress |-> progress, src |-> src])],
          card |-> IF worker[target] /\ ~is_cancelled[target]
                   THEN [ui.card EXCEPT ![target] = status]
                   ELSE ui.card]

UI == [sink |-> sink, card |-> card]

\* download_track's own progress_callback argument
OwnSink(t) == IF has_sink[t] THEN t ELSE NoTask

\* raise e inside download_track's try block
Raise(t, type, msg) ==
    /\ exc' = [exc EXCEPT ![t] = [type |-> type, msg |-> msg]]
    /\ pc' = [pc EXCEPT ![t] = "cleanup"]

(***************************************************************************)
(* Errors of the extraction service                                        *)
(***************************************************************************)

\* the text of a DownloadError, as the fragments the code searches it for
DownloadErrorMsgs ==
    { <<"ERROR: ", "HTTP Error 403", ": Forbidden">>,
      <<"ERROR: ", "Video unavailable">>,
      <<"ERROR: ", "Sign in", " to confirm your age">>,
      <<"ERROR: ", "Unable to download video data">> }

\* fragment in error_msg
Mentions(error_msg, fragment) == \E i \in 1..Len(error_msg) : error_msg[i] = fragment

\* str(e)
RECURSIVE Str(_)
Str(error_msg) == IF error_msg = <<>> THEN "" ELSE Head(error_msg) \o Str(Tail(error_msg))

\* the except clause around ydl.download: the RuntimeError text raised for
\* a DownloadError
DownloadErrorText(error_msg) ==
    IF Mentions(error_msg, "HTTP Error 403")
    THEN "YouTube is blocking our requests. Please try again later."
    ELSE IF Mentions(error_msg, "Video unavailable")
    THEN "This video is not available. It might be private or deleted."
    ELSE IF Mentions(error_msg, "Sign in")
    THEN "This video requires age verification or sign in."
    ELSE "Download failed: " \o Str(error_msg)

(***************************************************************************)
(* MainWindow._start_download and download_track up to the download        *)
(***************************************************************************)

\* A download is started: by MainWindow._start_download (a task card, a
\* DownloadWorker whose run() passes its progress_callback), or by a caller
\* of download_track that passes no progress_callback.
StartDownload(t, in) ==
    /\ pc[t] = "idle"
    /\ \E gui \in in.guis :
        /\ worker' = [worker EXCEPT ![t] = gui]
        /\ has_sink' = [has_sink EXCEPT ![t] = gui]
    /\ pc' = [pc EXCEPT ![t] = "called"]
    /\ UNCHANGED <<downloader, filesystem, locals, exc, result, sink, is_cancelled,
                   card, ghosts, effects, call>>

\* download_track, lines 259-264
Begin(t) ==
    /\ pc[t] = "called"
    /\ current_callback' = OwnSink(t)
    /\ cancelled' = FALSE
    /\ output_path' = [output_path EXCEPT ![t] = NoPath]
    /\ LET ui == Deliver(UI, OwnSink(t), "Starting download...", 0, t)
       IN  sink' = ui.sink /\ card' = ui.card
    /\ pc' = [pc EXCEPT ![t] = "check1"]
    /\ UNCHANGED <<filesystem, has_sink, worker, info, metadata, exc, result,
                   is_cancelled, ghosts, effects, call>>

\* download_track, lines 268-273: the first cancellation checkpoint
CheckBeforeInfo(t) ==
    /\ pc[t] = "check1"
    /\ LET ui == Deliver(UI, OwnSink(t), "Fetching video info...", 100, t)
       IN  sink' = ui.sink /\ card' = ui.card
    /\ IF cancelled
       THEN Raise(t, "RuntimeError", "Download cancelled")
       ELSE pc' = [pc EXCEPT ![t] = "fetch"] /\ UNCHANGED exc
    /\ UNCHANGED <<downloader, filesystem, has_sink, worker, locals, result,
                   is_cancelled, ghosts, effects, call>>

\* download_track, lines 275-282: extract_info(download=False) raises a
\* DownloadError, returns nothing, or returns the video's info
FetchInfo(t, in) ==
    /\ pc[t] = "fetch"
    /\ \/ \E m \in in.errors :
            Raise(t, "DownloadError", Str(m)) /\ UNCHANGED info
       \/ Raise(t, "ValueError", "Failed to get video info") /\ UNCHANGED info
       \/ \E i \in in.infos :
            /\ info' = [info EXCEPT ![t] = i]
            /\ pc' = [pc EXCEPT ![t] = "resolve"]
            /\ UNCHANGED exc
    /\ UNCHANGED <<downloader, filesystem, has_sink, worker, output_path, metadata,
                   result, sink, is_cancelled, card, ghosts, effects, call>>

\* download_track, line 285: _get_output_path, which makes the directory
ResolvePath(t, in) ==
    /\ pc[t] = "resolve"
    /\ \E lookup \in in.lookups :
        LET path == GetOutputPath(info[t], lookup)
        IN  /\ output_path' = [output_path EXCEPT ![t] = path]
            /\ dirs' = dirs \cup Parents(path.dir)
            /\ effects' = [effects EXCEPT ![t].made_dirs = @ \cup (Parents(path.dir) \ dirs)]
    /\ pc' = [pc EXCEPT ![t] = "check2"]
    /\ UNCHANGED <<downloader, files, has_sink, worker, info, metadata, exc, result,
                   sink, is_cancelled, card, ghosts, call>>

\* the outtmpl of line 295, with the one element "%(ext)s" for the field
OutTmpl(path) ==
    [dir  |-> path.dir,
     name |-> WithSuffix(WithSuffix(path.name, <<>>), <<".", "%(ext)s">>)]

\* download_track, lines 288-302: the second cancellation checkpoint, then
\* ydl.download is called with the output template
CheckBeforeDownload(t) ==
    /\ pc[t] = "check2"
    /\ IF cancelled
       THEN Raise(t, "RuntimeError", "Download cancelled") /\ UNCHANGED invoked
       ELSE /\ pc' = [pc EXCEPT ![t] = "download"]
            /\ invoked' = [invoked EXCEPT ![t] = TRUE]
            /\ UNCHANGED exc
    /\ UNCHANGED <<downloader, filesystem, has_sink, worker, locals, result, sink,
                   is_cancelled, card, requested, mid_download, tag_failed,
                   effects, call>>

(***************************************************************************)
(* The hooks yt-dlp calls on the MusicDownloader while ydl.download runs   *)
(***************************************************************************)

\* progress_hook(d), called by the download src: ui after the call
ProgressHook(ui, d, src) ==
    IF current_callback = NoTask THEN ui
    ELSE IF d["status"] = "downloading" THEN
        IF "_percent_str" \in DOMAIN d THEN
            IF d["_percent_str"].parses
            THEN Deliver(ui, current_callback,
                         "Downloading: " \o d["_percent_str"].text \o "% @ "
                             \o Get(d, "_speed_str", "") \o " (ETA: "
                             \o Get(d, "_eta_str", "") \o ")",
                         d["_percent_str"].percent * 7, src)
            ELSE Deliver(ui, current_callback, "Downloading...", 100, src)
        ELSE IF Get(d, "total_bytes", 0) > 0
        THEN Deliver(ui, current_callback, "Downloading: bytes",
                     (Get(d, "downloaded_bytes", 0) * 700) \div d["total_bytes"], src)
        ELSE ui
    ELSE IF d["status"] = "finished"
    THEN Deliver(ui, current_callback, "Download complete, starting conversion...", 750, src)
    ELSE ui

\* postprocessor_hook(d)
PostprocessorHook(ui, d, src) ==
    IF current_callback = NoTask THEN ui
    ELSE IF d["status"] = "started" THEN
        IF d["postprocessor"] = "FFmpegExtractAudio"
        THEN Deliver(ui, current_callback, "Converting audio to MP3...", 800, src)
        ELSE IF d["postprocessor"] = "FFmpegMetadata"
        THEN Deliver(ui, current_callback, "Adding metadata tags...", 900, src)
        ELSE IF d["postprocessor"] = "EmbedThumbnail"
        THEN Deliver(ui, current_callback, "Adding album artwork...", 850, src)
        ELSE ui
    ELSE IF d["status"] = "finished" THEN
        IF d["postprocessor"] = "FFmpegExtractAudio"
        THEN Deliver(ui, current_callback, "Audio conversion complete", 850, src)
        ELSE IF d["postprocessor"] = "FFmpegMetadata"
        THEN Deliver(ui, current_callback, "Metadata added successfully", 950, src)
        ELSE IF d["postprocessor"] = "EmbedThumbnail"
        THEN Deliver(ui, current_callback, "Album artwork added", 900, src)
        ELSE ui
    ELSE ui

\* The argument of a post hook is a dict or a str: [isstr, status, filename],
\* filename being a path (NoPath when the dict has none).
PostHookStr(path) == [isstr |-> TRUE, status |-> "", filename |-> path]
PostHookDict(status, path) == [isstr |-> FALSE, status |-> status, filename |-> path]

\* what yt-dlp may pass to a post hook for the final file
PostHookArgs(path) == {PostHookStr(path), PostHookDict("finished", path)}

\* _post_process(d)
PostProcess(ui, d, src) ==
    IF current_callback = NoTask THEN ui
    ELSE IF ~d.isstr THEN
        IF d.status = "started"
        THEN Deliver(ui, current_callback, "Starting post-processing...", 750, src)
        ELSE IF d.status = "finished"
        THEN Deliver(ui, current_callback, "Post-processing complete", 900, src)
        ELSE ui
    ELSE Deliver(ui, current_callback, "Post-processing complete", 900, src)

\* the extensions _clean_output_file removes
TempExts ==
    { <<".", "w", "e", "b", "p">>, <<".", "j", "p", "g">>,
      <<".", "j", "p", "e", "g">>, <<".", "p", "n", "g">> }

\* _clean_output_file(d): the files it removes
CleanOutputTargets(d) ==
    IF current_callback = NoTask THEN {}
    ELSE IF ~d.isstr /\ d.status = "finished" /\ d.filename # NoPath
    THEN LET base_path == WithSuffix(d.filename.name, <<>>)
         IN  {f \in files : \E ext \in TempExts :
                 f = [dir |-> d.filename.dir, name |-> WithSuffix(base_path, ext)]}
    ELSE {}

\* _clean_output_file(d): ui after the call
CleanOutputFile(ui, d, src) ==
    IF current_callback = NoTask THEN ui
    ELSE IF ~d.isstr /\ d.status = "finished" THEN
        IF d.filename # NoPath
        THEN Deliver(ui, current_callback, "Cleaning up file...", 950, src)
        ELSE ui
    ELSE IF d.isstr
    THEN Deliver(ui, current_callback, "Cleaning up file...", 950, src)
    ELSE ui

(***************************************************************************)
(* The extraction service inside ydl.download                              *)
(***************************************************************************)

\* the file the service writes for an extension: the template with its
\* "%(ext)s" element replaced
RECURSIVE Expand(_, _)
Expand(tmpl, ext) ==
    IF tmpl = <<>> THEN <<>>
    ELSE (IF Head(tmpl) = "%(ext)s" THEN ext ELSE <<Head(tmpl)>>) \o Expand(Tail(tmpl), ext)

ServiceFile(path, ext) == [dir |-> path.dir, name |-> Expand(OutTmpl(path).name, ext)]

Container == <<"w", "e", "b", "m">>
PartialContainer == <<"w", "e", "b", "m", ".", "p", "a", "r", "t">>
Thumbnail == <<"w", "e", "b", "p">>
Audio == <<"m", "p", "3">>

\* the progress dicts of the transfer
DownloadingDict ==
    ("status" :> "downloading")
        @@ ("_percent_str" :> [text |-> "50.0", percent |-> 50, parses |-> TRUE])
FinishedDict == "status" :> "finished"

PostprocessorDict(status) ==
    ("status" :> status) @@ ("postprocessor" :> "FFmpegExtractAudio")

\* ydl_opts['writethumbnail']
writethumbnail == FALSE

\* The transfer: the service writes the container, and a thumbnail when the
\* options ask for one, next to the output path, and reports through
\* progress_hook.
ServiceTransfer(t) ==
    /\ pc[t] = "download"
    /\ LET written == {ServiceFile(output_path[t], Container)} \cup
                      (IF writethumbnail THEN {ServiceFile(output_path[t], Thumbnail)} ELSE {})
       IN  /\ files' = files \cup written
           /\ effects' = [effects EXCEPT ![t].made_files = @ \cup (written \ files)]
    /\ LET ui == ProgressHook(ProgressHook(UI, DownloadingDict, t), FinishedDict, t)
       IN  sink' = ui.sink /\ card' = ui.card
    /\ pc' = [pc EXCEPT ![t] = "postprocess"]
    /\ UNCHANGED <<downloader, dirs, has_sink, worker, locals, exc, result,
                   is_cancelled, ghosts, call>>

\* The postprocessing: FFmpegExtractAudio replaces the container by the
\* audio file, or ends without one, with postprocessor_hook called around
\* it; then the post hooks, _post_process and _clean_output_file, are called
\* with the final file name as a str or in a dict, and ydl.download returns.
ServicePostprocess(t, in) ==
    /\ pc[t] = "postprocess"
    /\ \E produced \in in.produced :
       \E d \in {a \in PostHookArgs(ServiceFile(output_path[t], Audio)) :
                    a.isstr \in in.hook_strs} :
        LET audio   == IF produced THEN {ServiceFile(output_path[t], Audio)} ELSE {}
            gone    == {ServiceFile(output_path[t], Container)} \cap files
            cleaned == CleanOutputTargets(d) \ gone
            ui1 == PostprocessorHook(UI, PostprocessorDict("started"), t)
            ui2 == PostprocessorHook(ui1, PostprocessorDict("finished"), t)
            ui3 == CleanOutputFile(PostProcess(ui2, d, t), d, t)
        IN  /\ files' = ((files \ gone) \cup audio) \ cleaned
            /\ effects' = [effects EXCEPT ![t].made_files = @ \cup (audio \ files),
                                          ![t].removed = @ \cup gone \cup cleaned]
            /\ sink' = ui3.sink /\ card' = ui3.card
    /\ pc' = [pc EXCEPT ![t] = "check3"]
    /\ UNCHANGED <<downloader, dirs, has_sink, worker, locals, exc, result,
                   is_cancelled, ghosts, call>>

\* ydl.download raises: a DownloadError, which lines 303-318 turn into a
\* RuntimeError, or another exception. A transfer that fails may leave a
\* partial container.
ServiceFail(t, in) ==
    /\ pc[t] \in {"download", "postprocess"}
    /\ \E partial \in in.partials :
        LET written == IF partial /\ pc[t] = "download"
                       THEN {ServiceFile(output_path[t], PartialContainer)} ELSE {}
        IN  /\ files' = files \cup written
            /\ effects' = [effects EXCEPT ![t].made_files = @ \cup (written \ files)]
    /\ \/ \E m \in in.errors : Raise(t, "RuntimeError", DownloadErrorText(m))
       \/ Raise(t, "OSError", "No space left on device")
    /\ UNCHANGED <<downloader, dirs, has_sink, worker, locals, result, sink,
                   is_cancelled, card, ghosts, call>>

(***************************************************************************)
(* download_track after the download                                       *)
(***************************************************************************)

\* mp3_path = output_path.with_suffix('.mp3')
Mp3Path(path) == [dir |-> path.dir, name |-> WithSuffix(path.name, Mp3)]

\* download_track, lines 320-323: the checkpoint after ydl.download
CheckAfterDownload(t) ==
    /\ pc[t] = "check3"
    /\ IF cancelled
       THEN /\ files' = files \ {output_path[t]}
            /\ effects' = [effects EXCEPT ![t].removed = @ \cup ({output_path[t]} \cap files)]
            /\ Raise(t, "RuntimeError", "Download cancelled")
       ELSE /\ pc' = [pc EXCEPT ![t] = "verify"]
            /\ UNCHANGED <<files, effects, exc>>
    /\ UNCHANGED <<downloader, dirs, has_sink, worker, locals, result, sink,
                   is_cancelled, card, ghosts, call>>

\* lines 326-342 without the check that the converted file exists
VerifyFileUnchecked(t) ==
    /\ pc[t] = "verify"
    /\ metadata' = [metadata EXCEPT ![t] =
           ("title" :> CleanTitle(Get(info[t], "title", <<>>)))
               @@ ("artist" :> Get(info[t], "channel", <<>>))
               @@ ("album" :> Get(info[t], "album", <<>>))
               @@ ("date" :> Take(Get(info[t], "upload_date", <<>>), 4))
               @@ ("genre" :> Get(info[t], "genre", <<>>))]
    /\ pc' = [pc EXCEPT ![t] = "tag"]
    /\ UNCHANGED <<downloader, filesystem, has_sink, worker, info, output_path, exc,
                   result, sink, is_cancelled, card, ghosts, effects, call>>

\* download_track, lines 326-342: the converted file must exist; the
\* metadata is formatted from the video info
VerifyFile(t) ==
    /\ pc[t] = "verify"
    /\ IF Mp3Path(output_path[t]) \notin files
       THEN Raise(t, "FileNotFoundError", "Converted MP3 file not found")
            /\ UNCHANGED metadata
       ELSE /\ metadata' = [metadata EXCEPT ![t] =
                   ("title" :> CleanTitle(Get(info[t], "title", <<>>)))
                       @@ ("artist" :> Get(info[t], "channel", <<>>))
                       @@ ("album" :> Get(info[t], "album", <<>>))
                       @@ ("date" :> Take(Get(info[t], "upload_date", <<>>), 4))
                       @@ ("genre" :> Get(info[t], "genre", <<>>))]
            /\ pc' = [pc EXCEPT ![t] = "tag"]
            /\ UNCHANGED exc
    /\ UNCHANGED <<downloader, filesystem, has_sink, worker, info, output_path, result,
                   sink, is_cancelled, card, ghosts, effects, call>>

\* _update_metadata(file_path, md): it catches every exception of the tag
\* library itself, so it never raises; it returns what it wrote, or the
\* empty dict when writing failed (ok is whether the tag library succeeds)
UpdateMetadata(file_path, md, ok) ==
    [raised |-> FALSE,
     value  |-> IF ok
                THEN ("title" :> Get(md, "title", <<>>))
                         @@ ("artist" :> Get(md, "artist", <<>>))
                         @@ ("album" :> Get(md, "album", <<>>))
                         @@ ("date" :> Get(md, "date", <<>>))
                         @@ ("genre" :> Get(md, "genre", <<>>))
                         @@ ("format" :> <<"M", "P", "3">>)
                ELSE EmptyDict]

\* download_track, lines 345-355: the tagging stage
TagFile(t, in) ==
    /\ pc[t] = "tag"
    /\ \E ok \in (IF Mp3Path(output_path[t]) \in files THEN in.tag_oks ELSE {FALSE}) :
        LET ui0 == Deliver(UI, OwnSink(t), "Finalizing metadata...", 950, t)
            r   == UpdateMetadata(Mp3Path(output_path[t]), metadata[t], ok)
            ui1 == IF ~cancelled /\ r.raised
                   THEN Deliver(ui0, OwnSink(t),
                                "Warning: Metadata update failed, but download succeeded",
                                950, t)
                   ELSE ui0
        IN  /\ sink' = ui1.sink /\ card' = ui1.card
            /\ metadata' = [metadata EXCEPT ![t] =
                               IF ~cancelled /\ ~r.raised THEN r.value ELSE @]
            /\ tag_failed' = [tag_failed EXCEPT ![t] = ~cancelled /\ ~ok]
    /\ pc' = [pc EXCEPT ![t] = "complete"]
    /\ UNCHANGED <<downloader, filesystem, has_sink, worker, info, output_path, exc,
                   result, is_cancelled, requested, mid_download, invoked, effects,
                   call>>

\* download_track, lines 358-364: the completion callback and the return
Complete(t) ==
    /\ pc[t] = "complete"
    /\ IF has_sink[t] /\ ~cancelled /\ Mp3Path(output_path[t]) \notin files
       THEN Raise(t, "FileNotFoundError", "Downloaded file not found at expected location")
            /\ UNCHANGED <<sink, card>>
       ELSE /\ LET ui == IF has_sink[t] /\ ~cancelled
                         THEN Deliver(UI, t, "Download complete!", 1000, t)
                         ELSE UI
               IN  sink' = ui.sink /\ card' = ui.card
            /\ pc' = [pc EXCEPT ![t] = "finally"]
            /\ UNCHANGED exc
    /\ UNCHANGED <<downloader, filesystem, has_sink, worker, locals, result,
                   is_cancelled, ghosts, effects, call>>

\* the files output_path.parent.glob(f"{output_path.stem}.*") yields
PartialDownloads(path) ==
    {f \in files : f.dir = path.dir /\ FnMatch(f.name, Stem(path.name) \o <<".", "*">>)}

\* download_track, lines 366-375: the except clause removes the partial
\* downloads when output_path was set
Cleanup(t) ==
    /\ pc[t] = "cleanup"
    /\ LET gone == IF output_path[t] # NoPath THEN PartialDownloads(output_path[t]) ELSE {}
       IN  /\ files' = files \ gone
           /\ effects' = [effects EXCEPT ![t].removed = @ \cup gone]
    /\ pc' = [pc EXCEPT ![t] = "notify"]
    /\ UNCHANGED <<downloader, dirs, has_sink, worker, locals, exc, result, sink,
                   is_cancelled, card, ghosts, call>>

\* lines 377-382 without the failure callback
NotifyFailureSilent(t) ==
    /\ pc[t] = "notify"
    /\ pc' = [pc EXCEPT ![t] = "finally"]
    /\ UNCHANGED <<downloader, filesystem, has_sink, worker, locals, exc, result,
                   sink, card, is_cancelled, ghosts, effects, call>>

\* download_track, lines 377-382: the failure callback, then raise
NotifyFailure(t) ==
    /\ pc[t] = "notify"
    /\ LET ui == Deliver(UI, OwnSink(t),
                         IF exc[t].type = "RuntimeError" THEN exc[t].msg
                         ELSE "Download failed: " \o exc[t].msg,
                         0, t)
       IN  sink' = ui.sink /\ card' = ui.card
    /\ pc' = [pc EXCEPT ![t] = "finally"]
    /\ UNCHANGED <<downloader, filesystem, has_sink, worker, locals, exc, result,
                   is_cancelled, ghosts, effects, call>>

\* download_track, lines 383-385: the finally clause, then the call ends
Finally(t) ==
    /\ pc[t] = "finally"
    /\ current_callback' = NoTask
    /\ cancelled' = FALSE
    /\ result' = [result EXCEPT ![t] =
                     IF exc[t] = NoExc
                     THEN [kind |-> "returned", path |-> Mp3Path(output_path[t]), exc |-> NoExc]
                     ELSE [kind |-> "raised", path |-> NoPath, exc |-> exc[t]]]
    /\ pc' = [pc EXCEPT ![t] = "returned"]
    /\ UNCHANGED <<filesystem, has_sink, worker, locals, exc, sink, is_cancelled,
                   card, ghosts, effects, call>>

(***************************************************************************)
(* The callers: cancellation and the end of a DownloadWorker               *)
(***************************************************************************)

\* download_track is running for t: between its first line and its return
InFlight(t) ==
    pc[t] \in {"check1", "fetch", "resolve", "check2", "download", "postprocess",
               "check3", "verify", "tag", "complete", "cleanup", "notify", "finally"}

\* how many times cancel_download is called in a run
MaxCancelCalls == 1

\* MusicDownloader.cancel_download(), called to cancel the download t
CancelDownload(t) ==
    /\ InFlight(t)
    /\ ~requested[t]
    /\ Cardinality({u \in Tasks : requested[u]}) < MaxCancelCalls
    /\ cancelled' = TRUE
    /\ requested' = [requested EXCEPT ![t] = TRUE]
    /\ mid_download' = [mid_download EXCEPT ![t] = pc[t] \in {"download", "postprocess"}]
    /\ UNCHANGED <<current_callback, filesystem, pc, has_sink, worker, locals, exc,
                   result, sink, is_cancelled, card, invoked, tag_failed, effects, call>>

\* DownloadWorker.cancel(), which MainWindow.closeEvent calls on an active
\* download
WorkerCancel(t) ==
    /\ worker[t]
    /\ pc[t] \notin {"idle", "done"}
    /\ ~is_cancelled[t]
    /\ is_cancelled' = [is_cancelled EXCEPT ![t] = TRUE]
    /\ UNCHANGED <<downloader, filesystem, pc, has_sink, worker, locals, exc, result,
                   sink, card, ghosts, effects, call>>

\* TaskCard.set_error(error)
SetError(error) == "Error: " \o error

\* The end of DownloadWorker.run (lines 83-128): the finished signal, then
\* MainWindow._on_download_finished with TaskManager.complete_task or
\* fail_task. A caller other than a worker just gets the result.
Finish(t) ==
    /\ pc[t] = "returned"
    /\ card' = [card EXCEPT ![t] =
                   IF ~worker[t] THEN @
                   ELSE IF result[t].kind = "raised" THEN SetError(result[t].exc.msg)
                   ELSE IF is_cancelled[t] THEN SetError("Cancelled")
                   ELSE "Download complete!"]
    /\ pc' = [pc EXCEPT ![t] = "done"]
    /\ UNCHANGED <<downloader, filesystem, has_sink, worker, locals, exc, result, sink,
                   is_cancelled, ghosts, effects, call>>

(***************************************************************************)
(* The buttons of a task card                                              *)
(***************************************************************************)

\* Statuses after which TaskCard.set_status (lines 146-151) has certainly
\* shown the Cancel button: the ones with "..." and a progress above 0.
ActiveStatuses ==
    { "Fetching video info...", "Downloading...",
      "Download complete, starting conversion...", "Converting audio to MP3...",
      "Starting post-processing...", "Cleaning up file...", "Finalizing metadata..." }

\* The Cancel button of the card: TaskManager._on_cancel, TaskCard.set_cancelled
CardCancel(t) ==
    /\ worker[t]
    /\ card[t] \in ActiveStatuses
    /\ card' = [card EXCEPT ![t] = "Cancelled"]
    /\ UNCHANGED <<downloader, filesystem, pc, has_sink, worker, locals, exc, result,
                   sink, is_cancelled, ghosts, effects, call>>

\* The Retry button of the card, which set_error has shown:
\* TaskManager._on_retry
CardRetry(t) ==
    /\ worker[t]
    /\ pc[t] = "done"
    /\ card[t] \in {SetError(result[t].exc.msg), SetError("Cancelled")}
    /\ card' = [card EXCEPT ![t] = "Retrying..."]
    /\ UNCHANGED <<downloader, filesystem, pc, has_sink, worker, locals, exc, result,
                   sink, is_cancelled, ghosts, effects, call>>

(***************************************************************************)
(* MusicDownloader.fetch_metadata                                          *)
(***************************************************************************)

\* TrackMetadata(title, artist, album, year, genre)
TrackMetadata(title, artist, album, year, genre) ==
    [title |-> title, artist |-> artist, album |-> album, year |-> year, genre |-> genre]

\* metadata = None
NoMetadata == TrackMetadata(<<>>, <<>>, <<>>, <<>>, <<>>)

\* One search strategy, lines 666-682 and 692-708: the TrackMetadata of the
\* first recording when its score reaches the threshold, and that recording
\* (best_match). A lookup that raises, and a record whose release or tag
\* list is there but empty (its [0] is an IndexError), raise out of the
\* strategy.
Strategy(lookup, artist, title, tenths) ==
    IF lookup.raised
    THEN [raised |-> TRUE, metadata |-> NoMetadata, best_match |-> EmptyDict]
    ELSE LET recordings == Get(lookup.value, "recording-list", <<>>)
         IN  IF recordings = <<>>
             THEN [raised |-> FALSE, metadata |-> NoMetadata, best_match |-> EmptyDict]
             ELSE IF ~ScoreAtLeast(ScoreMetadataMatch(recordings[1], artist, title), tenths)
             THEN [raised |-> FALSE, metadata |-> NoMetadata, best_match |-> EmptyDict]
             ELSE LET best_match == recordings[1]
                      releases == Get(best_match, "release-list", <<EmptyDict>>)
                      tags == Get(best_match, "tag-list", <<EmptyDict>>)
                  IN  IF releases = <<>> \/ tags = <<>>
                      THEN [raised |-> TRUE, metadata |-> NoMetadata,
                            best_match |-> best_match]
                      ELSE [raised |-> FALSE,
                            best_match |-> best_match,
                            metadata |-> TrackMetadata(
                                Get(best_match, "title", title),
                                Get(best_match, "artist-credit-phrase", artist),
                                Get(releases[1], "title", <<>>),
                                Take(Get(releases[1], "date", <<>>), 4),
                                Get(tags[1], "name", <<>>))]

\* what the try block leaves: the outcome of a strategy, which searches
\* were made (queries) and which strategy set metadata (by)
Searched(outcome, queries, strategy) ==
    [raised |-> outcome.raised, metadata |-> outcome.metadata,
     best_match |-> outcome.best_match, queries |-> queries,
     by |-> IF outcome.raised \/ outcome.metadata = NoMetadata THEN "" ELSE strategy]

\* the try block with the second search made whatever the first found
SearchStrategiesBoth(artist, title, lookup1, lookup2) ==
    LET first  == Strategy(lookup1, artist, title, 7)
        second == Strategy(lookup2, artist, title, 8)
    IN  IF first.raised THEN Searched(first, <<"A">>, "A")
        ELSE IF second.raised \/ second.metadata # NoMetadata
        THEN Searched(second, <<"A", "B">>, "B")
        ELSE Searched(first, <<"A", "B">>, "A")

\* the try block of fetch_metadata, lines 658-708, for the cleaned artist and
\* title: the second search runs when the first accepted nothing
SearchStrategies(artist, title, lookup1, lookup2) ==
    LET first == Strategy(lookup1, artist, title, 7)
    IN  IF first.raised \/ first.metadata # NoMetadata THEN Searched(first, <<"A">>, "A")
        ELSE Searched(Strategy(lookup2, artist, title, 8), <<"A", "B">>, "B")

\* fetch_metadata without its except clause
FetchMetadataUncaught(artist, title, lookup1, lookup2) ==
    LET ctitle  == CleanTitle(title)
        cartist == Strip(artist)
        found   == SearchStrategies(cartist, ctitle, lookup1, lookup2)
    IN  IF found.raised THEN [raised |-> TRUE, value |-> NoMetadata, search |-> found]
        ELSE IF found.metadata # NoMetadata
        THEN [raised |-> FALSE, value |-> found.metadata, search |-> found]
        ELSE [raised |-> FALSE, search |-> found,
              value |-> TrackMetadata(ctitle, cartist, <<>>, <<>>, <<>>)]

\* fetch_metadata(artist, title), with the answers of its two searches:
\* whether it raises, and the TrackMetadata it returns
FetchMetadata(artist, title, lookup1, lookup2) ==
    LET ctitle  == CleanTitle(title)
        cartist == Strip(artist)
        found   == SearchStrategies(cartist, ctitle, lookup1, lookup2)
    IN  IF ~found.raised /\ found.metadata # NoMetadata
        THEN [raised |-> FALSE, value |-> found.metadata, search |-> found]
        ELSE [raised |-> FALSE, search |-> found,
              value |-> TrackMetadata(ctitle, cartist, <<>>, <<>>, <<>>)]

\* a recording that matches artist "c" and title "ab", released on date
RecDated(date) ==
    ("title" :> <<"a", "b">>) @@ ("artist-credit-phrase" :> <<"c">>)
        @@ ("release-list" :> << ("title" :> <<"l">>) @@ ("date" :> date) >>)
        @@ ("tag-list" :> << ("name" :> <<"r">>) >>)

\* a matching recording whose release list is empty
RecNoRelease ==
    ("title" :> <<"a", "b">>) @@ ("artist-credit-phrase" :> <<"c">>)
        @@ ("release-list" :> <<>>)

\* the dates of the lookup service: none, a year, a full date, a short one
Dates ==
    { <<>>, <<"1", "9", "9", "9">>,
      <<"1", "9", "9", "9", "-", "0", "5", "-", "0", "1">>, <<"1", "9", "9">> }

\* what search_recordings may answer to fetch_metadata
MetadataLookups ==
    PathLookups \cup {Found(<<RecNoRelease>>)} \cup {Found(<<RecDated(d)>>) : d \in Dates}

\* the artists and titles fetch_metadata is called with
MetadataArtists == { <<"c">>, <<" ", "c">>, <<"x">> }
MetadataTitles == { <<"a", "b">>, <<"c", " ", "-", " ", "a", "b", " ", "(", "H", "D", ")">> }

\* the arguments of a call of fetch_metadata
FetchMetadataCalls ==
    { [fn |-> "fetch_metadata", done |-> FALSE, artist |-> a, title |-> t,
       lookup1 |-> l1, lookup2 |-> l2, out |-> [raised |-> FALSE, value |-> NoMetadata]] :
        a \in MetadataArtists, t \in MetadataTitles,
        l1 \in MetadataLookups, l2 \in MetadataLookups }

\* fetch_metadata is called and ends
FetchMetadataCall ==
    /\ call.fn = "fetch_metadata" /\ ~call.done
    /\ call' = [call EXCEPT !.done = TRUE,
                            !.out = FetchMetadata(call.artist, call.title,
                                                  call.lookup1, call.lookup2)]
    /\ UNCHANGED <<downloader, filesystem, pc, has_sink, worker, locals, exc, result,
                   sink, is_cancelled, card, ghosts, effects>>

(***************************************************************************)
(* Calls of _clean_title and clean_filename                                *)
(***************************************************************************)

\* the strings made of at most max of the given pieces
RECURSIVE Concat(_)
Concat(pieces) == IF pieces = <<>> THEN <<>> ELSE Head(pieces) \o Concat(Tail(pieces))

PieceStrings(pieces, max) ==
    {Concat(ps) : ps \in UNION {[1..n -> pieces] : n \in 0..max}}

\* how many pieces the titles and the file names of the calls have
MaxTitlePieces == 5
MaxNamePieces == 3

\* pieces of video titles: a word, the artist separator, a decorative
\* suffix, a trailing group
TitlePieces ==
    { <<"a">>, <<" ", "-", " ">>, <<" ", "(", "H", "D", ")">>, <<" ", "[", "x", "]">> }

\* pieces of file names: a word, a listed word, a space, forbidden characters
NamePieces ==
    { <<"a">>, <<"D", "a", "m", "n">>, <<" ">>, <<"*">>, <<":">>, <<"\\">> }

CleanTitleCalls ==
    { [fn |-> "_clean_title", done |-> FALSE, arg |-> x, out |-> <<>>] :
        x \in PieceStrings(TitlePieces, MaxTitlePieces) }

CleanFilenameCalls ==
    { [fn |-> "clean_filename", done |-> FALSE, arg |-> x, out |-> <<>>] :
        x \in PieceStrings(NamePieces, MaxNamePieces) }

\* _clean_title(title) is called and returns
CleanTitleCall ==
    /\ call.fn = "_clean_title" /\ ~call.done
    /\ call' = [call EXCEPT !.done = TRUE, !.out = CleanTitle(call.arg)]
    /\ UNCHANGED <<downloader, filesystem, pc, has_sink, worker, locals, exc, result,
                   sink, is_cancelled, card, ghosts, effects>>

\* content_filter.clean_filename(filename) is called and returns
CleanFilenameCall ==
    /\ call.fn = "clean_filename" /\ ~call.done
    /\ call' = [call EXCEPT !.done = TRUE, !.out = CleanFilename(call.arg)]
    /\ UNCHANGED <<downloader, filesystem, pc, has_sink, worker, locals, exc, result,
                   sink, is_cancelled, card, ghosts, effects>>

(***************************************************************************)
(* MusicDownloader._score_result                                           *)
(***************************************************************************)

\* ContentFilter.contains_profanity(text): the censor would change the text
ContainsProfanity(text) == FilterEnabled /\ Censor(text) # text

\* the terms of the penalties list, lines 224-228
PenaltyTerms ==
    { <<"l", "i", "v", "e">>, <<"c", "o", "v", "e", "r">>,
      <<"r", "e", "m", "i", "x">>, <<"i", "n", "s", "t", "r", "u", "m", "e", "n", "t", "a", "l">>,
      <<"k", "a", "r", "a", "o", "k", "e">>, <<"e", "x", "t", "e", "n", "d", "e", "d">>,
      <<"c", "o", "n", "c", "e", "r", "t">>,
      <<"p", "e", "r", "f", "o", "r", "m", "a", "n", "c", "e">>,
      <<"r", "e", "h", "e", "a", "r", "s", "a", "l">>, <<"d", "e", "m", "o">>,
      <<"a", "c", "o", "u", "s", "t", "i", "c">>, <<"r", "e", "m", "a", "k", "e">>,
      <<"r", "e", "m", "a", "s", "t", "e", "r">>, <<"m", "i", "x">>,
      <<"m", "a", "s", "h", "u", "p">> }

\* a score is counted in millionths of a point
Points(n) == n * 1000000

\* _score_result(entry, query)
ScoreResult(entry, query) ==
    LET title    == Lower(entry["title"])
        channel  == Lower(Get(entry, "channel", <<>>))
        q        == Lower(query)
        duration == Get(entry, "duration", 0)
        views    == Get(entry, "view_count", 0)
        Has(term) == Contains(title, term)
        total    == IF "like_count" \in DOMAIN entry /\ "dislike_count" \in DOMAIN entry
                    THEN entry["like_count"] + entry["dislike_count"] ELSE 0
    IN  IF FilterEnabled /\ (ContainsProfanity(title) \/ ContainsProfanity(channel))
        THEN Points(0 - 100)
        ELSE (IF Contains(title, q) THEN Points(10) ELSE 0)
           + (IF 180 <= duration /\ duration <= 360 THEN Points(5)
              ELSE IF 120 <= duration /\ duration <= 480 THEN Points(3)
              ELSE IF duration > 480 THEN Points(0 - 5) ELSE 0)
           + (IF Has(<<"o", "f", "f", "i", "c", "i", "a", "l", " ", "a", "u", "d", "i", "o">>) THEN Points(25)
              ELSE IF Has(<<"a", "u", "d", "i", "o">>) THEN Points(15) ELSE 0)
           + (IF Has(<<"l", "y", "r", "i", "c", " ", "v", "i", "d", "e", "o">>) \/ Has(<<"l", "y", "r", "i", "c", "s">>) THEN Points(20) ELSE 0)
           + (IF Has(<<"r", "a", "d", "i", "o", " ", "e", "d", "i", "t">>) \/ Has(<<"r", "a", "d", "i", "o", " ", "v", "e", "r", "s", "i", "o", "n">>) THEN Points(12) ELSE 0)
           + (IF Has(<<"o", "f", "f", "i", "c", "i", "a", "l">>) THEN Points(10) ELSE 0)
           + (IF Has(<<"o", "f", "f", "i", "c", "i", "a", "l", " ", "v", "i", "d", "e", "o">>) \/ Has(<<"m", "u", "s", "i", "c", " ", "v", "i", "d", "e", "o">>) THEN Points(0 - 5) ELSE 0)
           - Points(8) * Cardinality({term \in PenaltyTerms : Has(term)})
           + (IF Get(entry, "channel_verified", FALSE) THEN Points(5) ELSE 0)
           + (IF views > 0 THEN (IF views > Points(5) THEN Points(5) ELSE views) ELSE 0)
           + (IF total > 0 THEN (entry["like_count"] * Points(3)) \div total ELSE 0)

\* a title with every term of the penalties list
AllPenaltiesTitle ==
    << "l", "i", "v", "e", " ", "c", "o", "v", "e", "r", " ", "r", "e", "m",
       "i", "x", " ", "i", "n", "s", "t", "r", "u", "m", "e", "n", "t", "a",
       "l", " ", "k", "a", "r", "a", "o", "k", "e", " ", "e", "x", "t", "e",
       "n", "d", "e", "d", " ", "c", "o", "n", "c", "e", "r", "t", " ", "p",
       "e", "r", "f", "o", "r", "m", "a", "n", "c", "e", " ", "r", "e", "h",
       "e", "a", "r", "s", "a", "l", " ", "d", "e", "m", "o", " ", "a", "c",
       "o", "u", "s", "t", "i", "c", " ", "r", "e", "m", "a", "k", "e", " ",
       "r", "e", "m", "a", "s", "t", "e", "r", " ", "m", "a", "s", "h", "u",
       "p" >>

\* titles of candidates without a listed word
ScoreTitles ==
    { <<"a">>,
      <<"a", " ", "O", "f", "f", "i", "c", "i", "a", "l", " ", "A", "u", "d", "i", "o">>,
      <<"a", " ", "l", "y", "r", "i", "c", "s">>,
      <<"a", " ", "l", "i", "v", "e">>, AllPenaltiesTitle }

\* a candidate of the search
Entry(title, channel, duration, verified, views) ==
    ("title" :> title) @@ ("channel" :> channel) @@ ("duration" :> duration)
        @@ ("channel_verified" :> verified) @@ ("view_count" :> views)

\* candidates without a listed word in title or channel
CleanEntries ==
    { Entry(t, <<"c">>, d, v, n) :
        t \in ScoreTitles, d \in {0, 200, 500}, v \in BOOLEAN, n \in {0, 2000000} }

\* candidates with a listed word in the title or in the channel
FlaggedEntries ==
    { Entry(<<"D", "a", "m", "n">>, <<"c">>, 200, TRUE, 2000000),
      Entry(<<"a">>, <<"d", "a", "m", "n">>, 200, TRUE, 2000000) }

\* two candidates of one search are scored, a flagged and a clean one
ScoreResultCalls ==
    { [fn |-> "_score_result", done |-> FALSE, flagged |-> f, clean |-> c, query |-> q,
       out |-> [flagged |-> 0, clean |-> 0]] :
        f \in FlaggedEntries, c \in CleanEntries, q \in { <<"a">>, <<"z">> } }

ScoreResultCall ==
    /\ call.fn = "_score_result" /\ ~call.done
    /\ call' = [call EXCEPT !.done = TRUE,
                            !.out = [flagged |-> ScoreResult(call.flagged, call.query),
                                     clean   |-> ScoreResult(call.clean, call.query)]]
    /\ UNCHANGED <<downloader, filesystem, pc, has_sink, worker, locals, exc, result,
                   sink, is_cancelled, card, ghosts, effects>>

(***************************************************************************)
(* Calls of _update_metadata on a file with tags                           *)
(***************************************************************************)

\* the tag fields _update_metadata maps, lines 505-514
TagFields == {"title", "artist", "album", "date", "genre"}

\* the tags of the file after lines 505-517: every key of the metadata dict
\* is assigned, whatever its value, and the tags are saved
WriteTags(tags, md) ==
    [f \in DOMAIN tags \cup (TagFields \cap DOMAIN md) |->
        IF f \in TagFields \cap DOMAIN md THEN md[f] ELSE tags[f]]

\* a metadata dict: each field is absent, empty or has a value
MetadataDicts ==
    { [f \in {g \in TagFields : choice[g] # "absent"} |->
          IF choice[f] = "empty" THEN <<>> ELSE <<"v">>] :
        choice \in [TagFields -> {"absent", "empty", "value"}] }

\* the tags a file has before the call
FileTags ==
    { EmptyDict, "album" :> <<"l">>, ("album" :> <<"l">>) @@ ("comment" :> <<"k">>) }

\* the arguments of a call of _update_metadata, the tags of the file, and
\* whether the tag library succeeds
UpdateMetadataCalls ==
    { [fn |-> "_update_metadata", done |-> FALSE, tags |-> tags, metadata |-> md,
       ok |-> ok, out |-> [tags |-> tags, written |-> EmptyDict]] :
        tags \in FileTags, md \in MetadataDicts, ok \in BOOLEAN }

\* _update_metadata is called and ends: the tags of the file and the record
\* it returns
UpdateMetadataCall ==
    /\ call.fn = "_update_metadata" /\ ~call.done
    /\ call' = [call EXCEPT
                   !.done = TRUE,
                   !.out = [tags    |-> IF call.ok THEN WriteTags(call.tags, call.metadata)
                                        ELSE call.tags,
                            written |-> UpdateMetadata(Mp3Path(NoPath), call.metadata,
                                                       call.ok).value]]
    /\ UNCHANGED <<downloader, filesystem, pc, has_sink, worker, locals, exc, result,
                   sink, is_cancelled, card, ghosts, effects>>

(***************************************************************************)
(* MusicDownloader.search_track and SearchWorker.run                       *)
(***************************************************************************)

\* the dict search_track yields for an entry, lines 153-159
Candidate(entry, query) ==
    [id |-> entry["id"], title |-> entry["title"],
     channel |-> Get(entry, "channel", <<>>), duration |-> Get(entry, "duration", 0),
     score |-> ScoreResult(entry, query)]

\* the loop of lines 146-159 from entry i on: an entry that is None or empty
\* is skipped, every other entry is scored and yielded
RECURSIVE YieldFrom(_, _, _)
YieldFrom(entries, query, i) ==
    IF i > Len(entries) THEN <<>>
    ELSE IF entries[i] = EmptyDict THEN YieldFrom(entries, query, i + 1)
    ELSE <<Candidate(entries[i], query)>> \o YieldFrom(entries, query, i + 1)

\* search_track(query), with the answer of extract_info: whether it raises
\* and the candidates it yields
SearchTrack(answer, query) ==
    IF answer.raised THEN [raised |-> TRUE, yielded |-> <<>>]
    ELSE IF answer.value = EmptyDict \/ "entries" \notin DOMAIN answer.value
    THEN [raised |-> FALSE, yielded |-> <<>>]
    ELSE [raised |-> FALSE, yielded |-> YieldFrom(answer.value["entries"], query, 1)]

\* SearchWorker.run, line 167, emitting every result
EmittedAll(results) == results

\* SearchWorker.run, line 167: results[:10]
Emitted(results) == Take(results, 10)

\* SearchWorker.run: what results_ready hands to the results dialog, nothing
\* when the search raised, was cancelled or found nothing
SearchWorkerRun(answer, query, search_cancelled) ==
    LET search == SearchTrack(answer, query)
    IN  [raised  |-> search.raised,
         yielded |-> search.yielded,
         shown   |-> IF ~search.raised /\ ~search_cancelled /\ search.yielded # <<>>
                     THEN Emitted(search.yielded) ELSE <<>>]

\* how many entries the extraction service returns to a search
MaxEntries == 12

\* the i-th entry of a search
SearchEntry(i) ==
    ("id" :> i) @@ ("channel" :> <<"c">>) @@ ("duration" :> 200)
        @@ ("title" :> (CASE i % 3 = 0 -> <<"a">>
                          [] i % 3 = 1 -> <<"a", " ", "l", "i", "v", "e">>
                          [] OTHER     -> <<"a", " ", "a", "u", "d", "i", "o">>))

\* extract_info("ytsearch10:..."): it raises, returns nothing, a dict without
\* entries, or n entries of which those at the positions nulls are None
SearchAnswers ==
    { [raised |-> TRUE, value |-> EmptyDict],
      [raised |-> FALSE, value |-> EmptyDict],
      [raised |-> FALSE, value |-> "id" :> 0] }
    \cup { [raised |-> FALSE,
            value  |-> "entries" :> [i \in 1..n |->
                                        IF i \in nulls THEN EmptyDict ELSE SearchEntry(i)]] :
             n \in 0..MaxEntries, nulls \in SUBSET {1, 2, 4} }

\* the arguments of a search
SearchCalls ==
    { [fn |-> "search_track", done |-> FALSE, answer |-> a, query |-> q,
       search_cancelled |-> c,
       out |-> [raised |-> FALSE, yielded |-> <<>>, shown |-> <<>>]] :
        a \in SearchAnswers, q \in { <<"a">>, <<"z">> }, c \in BOOLEAN }

\* a SearchWorker runs search_track to its end
SearchCall ==
    /\ call.fn = "search_track" /\ ~call.done
    /\ call' = [call EXCEPT !.done = TRUE,
                            !.out = SearchWorkerRun(call.answer, call.query,
                                                    call.search_cancelled)]
    /\ UNCHANGED <<downloader, filesystem, pc, has_sink, worker, locals, exc, result,
                   sink, is_cancelled, card, ghosts, effects>>

(***************************************************************************)
(* Calls of _get_output_path                                               *)
(***************************************************************************)

\* the names the services may give: a channel, an artist, an album, a title
ServiceNames == { <<"c">>, <<>>, <<".">>, <<".", ".">>, <<"a", "/", "b">> }

\* a recording that matches the video exactly, with an album
RecAlbum(artist, title, album) ==
    ("title" :> title) @@ ("artist-credit-phrase" :> artist)
        @@ ("release-list" :> << ("title" :> album) >>)

\* the arguments of a call of _get_output_path: the video's info, and the
\* answer of the lookup, an error or a record that matches the video
GetOutputPathCalls ==
    { [fn |-> "_get_output_path", done |-> FALSE, out |-> NoPath,
       video  |-> ("title" :> title) @@ ("channel" :> channel),
       lookup |-> IF raised THEN LookupError
                  ELSE Found(<<RecAlbum(channel, CleanTitle(title), album)>>)] :
        title \in ServiceNames, channel \in ServiceNames, album \in ServiceNames,
        raised \in BOOLEAN }

\* _get_output_path is called and returns a path
GetOutputPathCall ==
    /\ call.fn = "_get_output_path" /\ ~call.done
    /\ call' = [call EXCEPT !.done = TRUE,
                            !.out = GetOutputPath(call.video, call.lookup)]
    /\ UNCHANGED <<downloader, filesystem, pc, has_sink, worker, locals, exc, result,
                   sink, is_cancelled, card, ghosts, effects>>

(***************************************************************************)
(* Specifications                                                          *)
(***************************************************************************)

\* every answer of the services and every kind of caller
AllInputs ==
    [guis      |-> BOOLEAN,
     infos     |-> Infos,
     errors    |-> DownloadErrorMsgs,
     lookups   |-> PathLookups,
     produced  |-> BOOLEAN,
     hook_strs |-> BOOLEAN,
     partials  |-> BOOLEAN,
     tag_oks   |-> BOOLEAN]

\* one video, one path, a worker of the main window as the caller
FewInputs ==
    [guis      |-> {TRUE},
     infos     |-> {("title" :> <<"a", "b">>) @@ ("channel" :> <<"c">>)},
     errors    |-> {<<"ERROR: ", "Unable to download video data">>},
     lookups   |-> {LookupError},
     produced  |-> BOOLEAN,
     hook_strs |-> {TRUE},
     partials  |-> {TRUE},
     tag_oks   |-> {TRUE}]

\* a step of the download t and of its callers
Step(t, in) ==
    \/ StartDownload(t, in)
    \/ Begin(t)
    \/ CheckBeforeInfo(t)
    \/ FetchInfo(t, in)
    \/ ResolvePath(t, in)
    \/ CheckBeforeDownload(t)
    \/ ServiceTransfer(t)
    \/ ServicePostprocess(t, in)
    \/ ServiceFail(t, in)
    \/ CheckAfterDownload(t)
    \/ VerifyFile(t)
    \/ TagFile(t, in)
    \/ Complete(t)
    \/ Cleanup(t)
    \/ NotifyFailure(t)
    \/ Finally(t)
    \/ CancelDownload(t)
    \/ Finish(t)

\* Two downloads in flight together on the one MusicDownloader.
Next == \E t \in Tasks : Step(t, FewInputs)

Spec == Init /\ [][Next]_vars

\* One download, with every answer of the services, and its worker.
NextSolo == Step(1, AllInputs) \/ WorkerCancel(1) \/ CardCancel(1) \/ CardRetry(1)

SpecSolo == Init /\ [][NextSolo]_vars

\* One download, started when the music directory holds an earlier download.
SpecAgain == InitAgain /\ [][NextSolo]_vars

\* Calls of fetch_metadata, for every artist, title and pair of answers.
InitMetadata == InitDownloads /\ call \in FetchMetadataCalls

SpecMetadata == InitMetadata /\ [][FetchMetadataCall]_vars

\* Calls of _clean_title, for every title made of the pieces.
InitTitle == InitDownloads /\ call \in CleanTitleCalls

SpecTitle == InitTitle /\ [][CleanTitleCall]_vars

\* Calls of clean_filename, for every name made of the pieces.
InitFilename == InitDownloads /\ call \in CleanFilenameCalls

SpecFilename == InitFilename /\ [][CleanFilenameCall]_vars

\* Calls of _score_result for a flagged and a clean candidate of one search.
InitScore == InitDownloads /\ call \in ScoreResultCalls

SpecScore == InitScore /\ [][ScoreResultCall]_vars

\* Calls of _update_metadata on a file with or without tags.
InitTags == InitDownloads /\ call \in UpdateMetadataCalls

SpecTags == InitTags /\ [][UpdateMetadataCall]_vars

\* Calls of _get_output_path for the names the services may give.
InitPath == InitDownloads /\ call \in GetOutputPathCalls

SpecPath == InitPath /\ [][GetOutputPathCall]_vars

\* Searches of a SearchWorker.
InitSearch == InitDownloads /\ call \in SearchCalls

SpecSearch == InitSearch /\ [][SearchCall]_vars

(***************************************************************************)
(* Properties of download_track                                            *)
(***************************************************************************)

\* the call of download_track for t has ended
Terminated(t) == pc[t] \in {"returned", "done"}

\* the call ended by raising the cancellation error
EndedCancelled(t) ==
    result[t].kind = "raised" /\ result[t].exc.msg = "Download cancelled"

\* name is the stem of the output file followed by an extension
SharesStem(name, out) == StartsWith(name, Stem(out) \o <<".">>)

\* the files left in the output directory that share the output stem
StemFiles(t) ==
    {f \in files : f.dir = output_path[t].dir /\ SharesStem(f.name, output_path[t].name)}

Received(t, status) == \E i \in DOMAIN sink[t] : sink[t][i].status = status

\* C1: when a download that failed after ydl.download was called has ended,
\* no file sharing the stem of the output path remains in the output
\* directory.
FailureRemovesPartialFiles ==
    \A t \in Tasks :
        (Terminated(t) /\ invoked[t] /\ result[t].kind = "raised") => StemFiles(t) = {}

\* C2: a download whose cancellation was requested before ydl.download was
\* called never goes on to call ydl.download.
CancelWhileFetchingStopsDownload ==
    [][\A t \in Tasks :
          (requested[t] /\ pc[t] \in {"check1", "fetch", "resolve", "check2"})
              => pc'[t] # "download"]_vars

\* C3: a download that ended cancelled before ydl.download was called made no
\* directory, made no file and removed no file.
CancelBeforeDownloadLeavesFilesystem ==
    \A t \in Tasks :
        (exc[t].msg = "Download cancelled" /\ ~invoked[t]) => effects[t] = NoEffects

\* C4: a download whose tag writing failed, and that nobody cancelled, returns
\* its path, and its sink received the warning before "Download complete!".
TagFailureWarnsThenCompletes ==
    \A t \in Tasks :
        (Terminated(t) /\ tag_failed[t] /\ has_sink[t] /\ ~requested[t]) =>
            /\ result[t].kind = "returned"
            /\ \E i, j \in DOMAIN sink[t] :
                /\ i < j
                /\ sink[t][i].status =
                       "Warning: Metadata update failed, but download succeeded"
                /\ sink[t][j].status = "Download complete!"

\* what the extraction service may leave next to the output file
Artifacts(t) ==
    {ServiceFile(output_path[t], ext) :
        ext \in {Container, PartialContainer} \cup {Tail(e) : e \in TempExts}}

\* C5: when a download has ended, with or without a sink and whatever the
\* outcome, none of the service's temporary files remains next to the output
\* path, and of the files it made at most the one audio file remains.
NoArtifactsAtTaskEnd ==
    \A t \in Tasks :
        (Terminated(t) /\ output_path[t] # NoPath) =>
            /\ Artifacts(t) \cap files = {}
            /\ Cardinality(effects[t].made_files \cap files) <= 1

\* C6 as stated: once ydl.download has returned and the converted file is
\* missing, the only error the download raises is "Converted MP3 file not
\* found".
MissingFileAlwaysFailsAsMissing ==
    [][\A t \in Tasks :
          (/\ pc[t] \in {"check3", "verify"}
           /\ Mp3Path(output_path[t]) \notin files
           /\ exc'[t] # exc[t])
              => exc'[t] = [type |-> "FileNotFoundError",
                            msg  |-> "Converted MP3 file not found"]]_vars

\* C6: when no cancellation was seen at the checkpoint after ydl.download and
\* the converted file is missing at the verification, the download raises
\* FileNotFoundError "Converted MP3 file not found"; a download that raised
\* it returns no path and never reports "Download complete!".
MissingFileFailsUnlessCancelled ==
    /\ [][\A t \in Tasks :
            (/\ pc[t] = "verify"
             /\ Mp3Path(output_path[t]) \notin files
             /\ pc'[t] # pc[t])
                => /\ pc'[t] = "cleanup"
                   /\ exc'[t] = [type |-> "FileNotFoundError",
                                 msg  |-> "Converted MP3 file not found"]]_vars
    /\ [](\A t \in Tasks :
            exc[t].msg = "Converted MP3 file not found" =>
                /\ result[t].kind # "returned"
                /\ ~Received(t, "Download complete!"))

\* a download ended with the missing-file error, after the service returned
MissingFileFailed ==
    \E t \in Tasks :
        /\ pc[t] = "done"
        /\ invoked[t]
        /\ result[t].kind = "raised"
        /\ result[t].exc = [type |-> "FileNotFoundError",
                            msg  |-> "Converted MP3 file not found"]
        /\ Mp3Path(output_path[t]) \notin files

\* C7: a download ends cancelled only if its own cancellation was requested.
OnlyRequestedDownloadIsCancelled ==
    \A t \in Tasks : exc[t].msg = "Download cancelled" => requested[t]

\* C8: every progress event a sink receives comes from its own download.
SinkReceivesOwnEventsOnly ==
    \A t \in Tasks : \A i \in DOMAIN sink[t] : sink[t][i].src = t

\* C9: once cancellation was requested for a download and the flag is set,
\* the flag stays set while the download runs on without having seen it.
CancelFlagStaysSet ==
    [][\A t \in Tasks :
          (/\ requested[t] /\ cancelled
           /\ exc[t] = NoExc
           /\ pc[t] \in {"check1", "fetch", "resolve", "check2", "download",
                         "postprocess", "check3"}
           /\ pc'[t] = pc[t])
              => cancelled']_vars

\* C10: a download that ended because it was cancelled received no failure
\* message on its sink, and the card of a download of the main window that
\* was cancelled does not show an error.
CancelledIsNotShownAsError ==
    /\ \A t \in Tasks :
          (Terminated(t) /\ EndedCancelled(t)) => ~Received(t, "Download cancelled")
    /\ \A t \in Tasks :
          (/\ pc[t] = "done" /\ worker[t]
           /\ \/ EndedCancelled(t)
              \/ result[t].kind = "returned" /\ is_cancelled[t]) =>
              card[t] \notin {SetError("Download cancelled"), SetError("Cancelled")}

\* C11 as stated: fetch_metadata does not raise, and when both searches
\* raise it returns the cleaned title and the artist as given, with empty
\* album, year and genre.
FallbackKeepsGivenArtist ==
    (call.fn = "fetch_metadata" /\ call.done) =>
        /\ ~call.out.raised
        /\ (call.lookup1.raised /\ call.lookup2.raised) =>
              call.out.value = TrackMetadata(CleanTitle(call.title), call.artist,
                                             <<>>, <<>>, <<>>)

\* C11: fetch_metadata never raises, whatever the two searches answer, and
\* when the search raises it returns the cleaned title and the artist
\* stripped of surrounding whitespace, with empty album, year and genre.
FetchMetadataNeverRaises ==
    (call.fn = "fetch_metadata" /\ call.done) =>
        /\ ~call.out.raised
        /\ call.lookup1.raised =>
              call.out.value = TrackMetadata(CleanTitle(call.title), Strip(call.artist),
                                             <<>>, <<>>, <<>>)

\* fetch_metadata returned the fallback after a search that raised, for an
\* artist given with surrounding whitespace
FallbackAfterLookupError ==
    /\ call.fn = "fetch_metadata" /\ call.done
    /\ call.lookup1.raised
    /\ call.artist # Strip(call.artist)
    /\ call.out.value.artist = <<"c">>

\* C12: the year of the TrackMetadata fetch_metadata returns is empty or 4
\* characters long.
YearIsEmptyOrFourChars ==
    (call.fn = "fetch_metadata" /\ call.done) => Len(call.out.value.year) \in {0, 4}

\* C13: the path resolved for a download is not the path of an existing
\* file, and two downloads in flight never have the same output path.
OutputPathsNeverCollide ==
    /\ \A t \in Tasks : pc[t] = "check2" => output_path[t] \notin files
    /\ \A t, u \in Tasks :
          (t # u /\ InFlight(t) /\ InFlight(u) /\ output_path[t] # NoPath)
              => output_path[t] # output_path[u]

\* C14: once a download of the main window has ended and its card shows the
\* outcome, nothing changes what the card shows.
TerminalCardNeverChanges ==
    [][\A t \in Tasks : (pc[t] = "done" /\ worker[t]) => card'[t] = card[t]]_vars

\* C15: when download_track has returned a path to a caller that gave a
\* progress sink, the path is the .mp3 at the output path and the last
\* callback of the sink is ("Download complete!", 1.0).
ReturnEndsWithCompleteCallback ==
    \A t \in Tasks :
        (Terminated(t) /\ result[t].kind = "returned" /\ has_sink[t]) =>
            /\ result[t].path = Mp3Path(output_path[t])
            /\ sink[t] # <<>>
            /\ sink[t][Len(sink[t])].status = "Download complete!"
            /\ sink[t][Len(sink[t])].progress = 1000

\* C19: a download whose cancellation was requested while ydl.download was
\* running, and whose ydl.download returned, goes on to no verification, no
\* tagging and no completion callback: it raises "Download cancelled", and
\* when it has ended no file sharing the output stem remains.
CancelDuringDownloadIsHonoured ==
    \A t \in Tasks :
        mid_download[t] =>
            /\ pc[t] \notin {"verify", "tag", "complete"}
            /\ ~ \E i \in DOMAIN sink[t] :
                   sink[t][i].src = t /\ sink[t][i].status = "Download complete!"
            /\ Terminated(t) => result[t].kind = "raised"
            /\ (Terminated(t) /\ EndedCancelled(t)) => StemFiles(t) = {}

\* the callbacks of the sink of t that download t itself made
OwnEvents(t) == SelectSeq(sink[t], LAMBDA e : e.src = t)

\* the failure callbacks among them: the text of the error, at progress 0
FailureEvents(t) ==
    SelectSeq(OwnEvents(t),
              LAMBDA e : /\ e.progress = 0
                         /\ e.status \in {exc[t].msg, "Download failed: " \o exc[t].msg})

\* C20: a download that failed removes the files its cleanup pattern
\* matches, then makes one failure callback (the text of the error, 0), then
\* raises the error: the callback comes only after the cleanup, it is the
\* last callback the download makes and its only failure callback, and the
\* error raised is the one that entered the except clause.
FailureCleansNotifiesThenRaises ==
    /\ [][\A t \in Tasks :
            (pc'[t] = "notify" /\ pc[t] # "notify") =>
                /\ pc[t] = "cleanup"
                /\ output_path[t] # NoPath => PartialDownloads(output_path[t])' = {}]_vars
    /\ [](\A t \in Tasks :
            /\ (pc[t] \in {"cleanup", "notify"} /\ has_sink[t])
                   => Len(FailureEvents(t)) = 0
            /\ (pc[t] \in {"cleanup", "notify"}) => result[t] = NoResult
            /\ (Terminated(t) /\ result[t].kind = "raised") =>
                  /\ result[t].exc = exc[t] /\ exc[t] # NoExc
                  /\ has_sink[t] =>
                        /\ Len(FailureEvents(t)) = 1
                        /\ OwnEvents(t)[Len(OwnEvents(t))] = FailureEvents(t)[1])
    /\ [][\A t \in Tasks : exc[t] # NoExc => exc'[t] = exc[t]]_vars

\* a download with a sink failed after its download began and after its
\* cleanup removed a file
FailedAfterCleanup ==
    \E t \in Tasks :
        /\ pc[t] = "done" /\ result[t].kind = "raised" /\ has_sink[t]
        /\ invoked[t]
        /\ effects[t].removed # {}
        /\ Len(FailureEvents(t)) = 1

\* C16: cleaning a cleaned title changes nothing.
CleanTitleIsIdempotent ==
    (call.fn = "_clean_title" /\ call.done) => CleanTitle(call.out) = call.out

\* C17: the result of clean_filename holds none of the characters
\* < > : " / \ | ? *.
CleanFilenameHasNoForbiddenChar ==
    (call.fn = "clean_filename" /\ call.done) =>
        \A i \in DOMAIN call.out : call.out[i] \notin ForbiddenChars

\* C18: the score of a candidate with a listed word in its title or channel
\* is strictly below the score of a candidate without one.
FlaggedScoresBelowClean ==
    (call.fn = "_score_result" /\ call.done) => call.out.flagged < call.out.clean

\* the extraction service failed with the error text m in the download t
ServiceFailed(t, m) ==
    /\ Terminated(t) /\ result[t].kind = "raised"
    /\ result[t].exc.msg \in {Str(m), DownloadErrorText(m)}

\* C21: each failure of the extraction service (blocked, unavailable, sign
\* in required, other) reaches the caller and the sink as the message of its
\* kind, the four messages differ, and it is the same message whether
\* extract_info or ydl.download raised the error.
ServiceFailureHasItsOwnMessage ==
    /\ \A m1, m2 \in DownloadErrorMsgs :
          m1 # m2 => DownloadErrorText(m1) # DownloadErrorText(m2)
    /\ \A t \in Tasks : \A m \in DownloadErrorMsgs :
          ServiceFailed(t, m) =>
              /\ result[t].exc.msg = DownloadErrorText(m)
              /\ has_sink[t] =>
                    OwnEvents(t)[Len(OwnEvents(t))].status = DownloadErrorText(m)

\* the searches of a call of fetch_metadata respect the order and the
\* thresholds: the title-only search is made only after a first search that
\* raised nothing and accepted nothing, the record used was accepted with a
\* score of 0.7 by the first search or 0.8 by the second, and it is the
\* record the result is built from
StrategiesInOrder ==
    LET artist == Strip(call.artist)
        title  == CleanTitle(call.title)
        first  == Strategy(call.lookup1, artist, title, 7)
        search == call.out.search
    IN  /\ "B" \in {search.queries[i] : i \in DOMAIN search.queries}
              => (~first.raised /\ first.metadata = NoMetadata)
        /\ search.by = "A"
              => ScoreAtLeast(ScoreMetadataMatch(search.best_match, artist, title), 7)
        /\ search.by = "B"
              => ScoreAtLeast(ScoreMetadataMatch(search.best_match, artist, title), 8)
        /\ search.by # "" => call.out.value = search.metadata

\* C22 as stated: the searches respect the order and the thresholds, and
\* when neither search accepts a record fetch_metadata returns the cleaned
\* title and the artist as given, with empty album, year and genre.
NoMatchGivesGivenArtist ==
    (call.fn = "fetch_metadata" /\ call.done) =>
        /\ StrategiesInOrder
        /\ call.out.search.by = "" =>
              call.out.value = TrackMetadata(CleanTitle(call.title), call.artist,
                                             <<>>, <<>>, <<>>)

\* C22: the searches respect the order and the thresholds, and when neither
\* search accepts a record fetch_metadata returns the cleaned title and the
\* artist stripped of surrounding whitespace, with empty album, year and
\* genre.
NoMatchGivesStrippedArtist ==
    (call.fn = "fetch_metadata" /\ call.done) =>
        /\ StrategiesInOrder
        /\ call.out.search.by = "" =>
              call.out.value = TrackMetadata(CleanTitle(call.title), Strip(call.artist),
                                             <<>>, <<>>, <<>>)

\* both searches were made, the second returned a record that scores 0.75
\* and was refused, and the fallback carries the stripped artist
SecondSearchRefusedNearMatch ==
    /\ call.fn = "fetch_metadata" /\ call.done
    /\ call.out.search.queries = <<"A", "B">>
    /\ call.lookup2 = Found(<<RecNear>>)
    /\ call.artist = <<" ", "c">>
    /\ call.out.search.by = ""
    /\ call.out.value.artist = <<"c">>

\* the recordings a search returned, none when it raised
Recordings(lookup) ==
    IF lookup.raised THEN {}
    ELSE LET recordings == Get(lookup.value, "recording-list", <<>>)
         IN  {recordings[i] : i \in DOMAIN recordings}

\* score a is at least score b
ScoreGeq(a, b) == a.num * b.den >= b.num * a.den

\* C23: the record a search of fetch_metadata tests against its threshold is
\* the one with the highest score among the records the search returned: the
\* record used scores at least as much as every other, and when no record
\* was used none of the first search reaches 0.7 and none of the second 0.8.
TestedRecordIsBestScoring ==
    (call.fn = "fetch_metadata" /\ call.done) =>
        LET artist == Strip(call.artist)
            title  == CleanTitle(call.title)
            search == call.out.search
            Score(r) == ScoreMetadataMatch(r, artist, title)
            used   == IF search.by = "A" THEN call.lookup1 ELSE call.lookup2
        IN  /\ search.by # "" =>
                  \A r \in Recordings(used) : ScoreGeq(Score(search.best_match), Score(r))
            /\ (search.by = "" /\ ~search.raised) =>
                  /\ \A r \in Recordings(call.lookup1) : ~ScoreAtLeast(Score(r), 7)
                  /\ \A r \in Recordings(call.lookup2) : ~ScoreAtLeast(Score(r), 8)

\* the tags of the file of t were written: _update_metadata returned what it
\* wrote
TagsWritten(t) ==
    /\ pc[t] \in {"complete", "finally", "returned", "done"}
    /\ exc[t] = NoExc
    /\ "format" \in DOMAIN metadata[t]

\* C24: the artist and the title written to the tags of a downloaded file
\* are the artist and the title its output path was built from.
TagsMatchOutputPath ==
    \A t \in Tasks :
        TagsWritten(t) =>
            /\ output_path[t].dir[1] = CleanFilename(metadata[t]["artist"])
            /\ output_path[t].name = CleanFilename(metadata[t]["title"]) \o Mp3

\* C25: _update_metadata sets the tag fields whose value in the metadata is
\* not empty and leaves every other tag of the file as it was, and the
\* record it returns holds the values written, or nothing when writing
\* failed.
TagWriterSetsNonEmptyFieldsOnly ==
    (call.fn = "_update_metadata" /\ call.done) =>
        /\ \A f \in TagFields :
              LET given == Get(call.metadata, f, <<>>)
              IN  IF call.ok /\ given # <<>>
                  THEN f \in DOMAIN call.out.tags /\ call.out.tags[f] = given
                  ELSE /\ f \in DOMAIN call.out.tags <=> f \in DOMAIN call.tags
                       /\ f \in DOMAIN call.tags => call.out.tags[f] = call.tags[f]
        /\ \A f \in DOMAIN call.tags \ TagFields :
              f \in DOMAIN call.out.tags /\ call.out.tags[f] = call.tags[f]
        /\ \A f \in TagFields :
              Get(call.out.written, f, <<>>) =
                  (IF call.ok THEN Get(call.metadata, f, <<>>) ELSE <<>>)
        /\ ~call.ok => call.out.written = EmptyDict

\* the entries of an answer that are not None, in the order of the answer
GivenEntries(answer) ==
    IF answer.raised \/ "entries" \notin DOMAIN answer.value THEN <<>>
    ELSE SelectSeq(answer.value["entries"], LAMBDA e : e # EmptyDict)

EarlierDownloadSurvivesFailure ==
    \A t \in Tasks :
        (Terminated(t) /\ result[t].kind = "raised") => EarlierDownload \in files

\* the user cancels the download t in this step: the Cancel button of its
\* card, or DownloadWorker.cancel
UserCancels(t) ==
    \/ is_cancelled'[t] /\ ~is_cancelled[t]
    \/ card'[t] = "Cancelled" /\ card[t] # "Cancelled"

\* C28: when the user cancels an active download, the downloader's
\* cancellation flag is set, and a download whose worker was cancelled
\* stops at the checkpoint before ydl.download instead of downloading.
UserCancelSetsCancelFlag ==
    [][\A t \in Tasks :
          /\ UserCancels(t) => cancelled'
          /\ (is_cancelled[t] /\ pc[t] = "check2" /\ pc'[t] # "check2")
                => pc'[t] = "cleanup"]_vars

\* C29: once ydl.download was called with the output template, the audio
\* file the service writes is the file the verification looks for, and every
\* file the service writes matches the pattern of the failure cleanup.
ServiceWritesTheVerifiedFile ==
    \A t \in Tasks :
        invoked[t] =>
            /\ ServiceFile(output_path[t], Audio) = Mp3Path(output_path[t])
            /\ \A ext \in {Container, PartialContainer, Audio} :
                  FnMatch(ServiceFile(output_path[t], ext).name,
                          Stem(output_path[t].name) \o <<".", "*">>)

\* the directory dir below music_dir never leaves music_dir: no prefix of it
\* has more ".." components than other components
StaysInside(dir) ==
    \A n \in 1..Len(dir) :
        Cardinality({i \in 1..n : dir[i] = <<".", ".">>})
            <= Cardinality({i \in 1..n : dir[i] # <<".", ".">>})

\* C30: the path _get_output_path returns lies inside music_dir, whatever
\* the channel, artist, album and title: its directory never leaves
\* music_dir and its file name is a name, not "", "." or "..".
OutputPathInsideMusicDir ==
    (call.fn = "_get_output_path" /\ call.done) =>
        /\ StaysInside(call.out.dir)
        /\ call.out.name \notin { <<>>, <<".">>, <<".", ".">> }

====
